---- MODULE Spec2Model ----
(***************************************************************************)
(* A model of god_like: the GodLike application facade (godlike.py), the   *)
(* Request facade (request.py) and the Response facade (response.py),      *)
(* together with the parts of flask / werkzeug / the Python standard       *)
(* library whose behaviour the facades' results depend on.                 *)
(*                                                                         *)
(* Four specifications share the module:                                   *)
(*   Spec          route registration and dispatch through the wrapper     *)
(*   SpecResponse  a Response object driven by arbitrary call sequences    *)
(*   SpecRequest   a Request object read through its accessors             *)
(*   SpecListen    GodLike.listen and the process-wide streams             *)
(***************************************************************************)
EXTENDS Integers, Sequences, FiniteSets, TLC

VARIABLES
    \* ---- flask application state (godlike.py, GodLike._app)
    url_map,         \* sequence of rules, in order of registration
    view_functions,  \* endpoint -> the wrapper closure registered for it
    last_reg,        \* outcome of the last registration call
    dispatch,        \* what the last dispatch did
    \* ---- objects
    heap,            \* id -> flask response owned by the Response facade id
    \* ---- a Response used directly (response.py)
    log,             \* the calls made on the Response, oldest first
    last_call,       \* the last call: its target, return value, exception
    \* ---- a Request used directly (request.py)
    flask_request,   \* the wrapped native request
    obs,             \* the last accessor read and its result
    \* ---- GodLike.listen (godlike.py) and the process
    sys_stdout, sys_stderr,   \* the stream objects bound to sys.stdout/err
    files,           \* stream object -> "open" | "closed"
    lpc,             \* position of the listen call
    saved,           \* listen's locals stdout, stderr
    largs,           \* the arguments of the listen call
    writes           \* outcomes of writes to sys.stdout / sys.stderr

appVars    == <<url_map, view_functions, last_reg, dispatch>>
respVars   == <<log, last_call>>
reqVars    == <<flask_request, obs>>
listenVars == <<sys_stdout, sys_stderr, files, lpc, saved, largs, writes>>
vars       == <<appVars, heap, respVars, reqVars, listenVars>>

(***************************************************************************)
(* Bounds of the model.                                                    *)
(***************************************************************************)
MaxOps == 3
MaxRoutes == 2
MaxWrites == 2

(***************************************************************************)
(* Python values.  A text value and the JSON-serialisable values are       *)
(* tagged; "set" stands for an object json.dumps cannot serialise.         *)
(***************************************************************************)
Str(s)   == [kind |-> "str",  v |-> s]
VInt(n)  == [kind |-> "int",  v |-> n]
VBool(b) == [kind |-> "bool", v |-> b]
VList(s) == [kind |-> "list", v |-> s]
VDict(s) == [kind |-> "dict", v |-> s]      \* sequence of <<key, value>>
VSet     == [kind |-> "set",  v |-> <<>>]

NoneVal == 0            \* Python None where an object id is expected
NoExc   == ""           \* no exception raised

isinstance_str(x) == x.kind = "str"

RECURSIVE Serializable(_)
Serializable(x) ==
    CASE x.kind \in {"str", "int", "bool"} -> TRUE
      [] x.kind = "list" -> \A i \in DOMAIN x.v : Serializable(x.v[i])
      [] x.kind = "dict" -> \A i \in DOMAIN x.v : Serializable(x.v[i][2])
      [] OTHER -> FALSE

RECURSIVE Join(_, _)
Join(strs, sep) ==
    IF strs = <<>> THEN ""
    ELSE IF Len(strs) = 1 THEN strs[1]
    ELSE strs[1] \o sep \o Join(Tail(strs), sep)

\* json.dumps with its default separators (", " and ": ")
RECURSIVE json_dumps(_)
json_dumps(x) ==
    CASE x.kind = "str"  -> "\"" \o x.v \o "\""
      [] x.kind = "int"  -> ToString(x.v)
      [] x.kind = "bool" -> IF x.v THEN "true" ELSE "false"
      [] x.kind = "list" ->
            "[" \o Join([i \in DOMAIN x.v |-> json_dumps(x.v[i])], ", ") \o "]"
      [] x.kind = "dict" ->
            "{" \o Join([i \in DOMAIN x.v |->
                           "\"" \o x.v[i][1] \o "\": " \o json_dumps(x.v[i][2])],
                        ", ") \o "}"

(***************************************************************************)
(* MIME types.  A media type "type/subtype" is the pair <<type, subtype>>, *)
(* a bare name such as "json" the 1-tuple <<"json">>; Render gives the     *)
(* text.  "/" in x is then Len(x) = 2.                                     *)
(***************************************************************************)
HasSlash(m) == Len(m) = 2
Render(m)   == IF HasSlash(m) THEN m[1] \o "/" \o m[2] ELSE m[1]

TextHtml == <<"text", "html">>
AppJson  == <<"application", "json">>

\* mimetypes.types_map: keyed by the extension WITH its leading dot
types_map ==
    (".json" :> AppJson) @@ (".html" :> TextHtml) @@
    (".txt" :> <<"text", "plain">>) @@ (".xml" :> <<"text", "xml">>)

types_map_get(key, default) ==
    IF key \in DOMAIN types_map THEN types_map[key] ELSE default

(***************************************************************************)
(* http.HTTPStatus: the enumeration of the registered status codes.        *)
(* HTTPStatus(code) raises ValueError for a code that is not a member.     *)
(***************************************************************************)
HTTPStatus_phrase ==
    (200 :> "OK") @@ (201 :> "Created") @@ (302 :> "Found") @@
    (404 :> "Not Found")

(***************************************************************************)
(* The file system seen by Path.read_text, and pathlib.Path.               *)
(***************************************************************************)
Path(parent, stem, suffix) == [parent |-> parent, stem |-> stem, suffix |-> suffix]
PathName(p) == p.stem \o p.suffix
PathStr(p)  == p.parent \o "/" \o PathName(p)

FileSystem ==
    ("/srv/a.json" :> "{}") @@ ("/srv/notes" :> "hi")

(***************************************************************************)
(* flask.Response (werkzeug): the native response.                         *)
(***************************************************************************)
SetItem(headers, k, v) ==
    [x \in DOMAIN headers \cup {k} |-> IF x = k THEN v ELSE headers[x]]

\* Response(): status 200, empty body, and the default mimetype text/html
\* written to the Content-Type header with the charset parameter
FlaskResponse ==
    [status_code |-> 200,
     headers     |-> ("Content-Type" :> "text/html; charset=utf-8"),
     data        |-> ""]

\* (seeded fault) the body is appended to, not replaced
set_data_append(fr, value) ==
    [fr EXCEPT !.data = @ \o value,
               !.headers = SetItem(@, "Content-Length", ToString(Len(fr.data \o value)))]

\* response.data = value: replaces the body and sets Content-Length
set_data(fr, value) ==
    [fr EXCEPT !.data = value,
               !.headers = SetItem(@, "Content-Length", ToString(Len(value)))]

\* response.content_type = value: replaces the Content-Type header
set_content_type(fr, value) ==
    [fr EXCEPT !.headers = SetItem(@, "Content-Type", value)]

\* response.status_code = code
set_status_code(fr, code) == [fr EXCEPT !.status_code = code]

\* response.headers[k] = v
set_header_item(fr, k, v) == [fr EXCEPT !.headers = SetItem(@, k, v)]

\* response.headers.get(field, None)
headers_get(fr, field) ==
    IF field \in DOMAIN fr.headers
    THEN [present |-> TRUE, value |-> fr.headers[field]]
    ELSE [present |-> FALSE, value |-> ""]

(***************************************************************************)
(* response.py: class Response.  Every method takes the heap and the       *)
(* facade it is called on and yields the heap after the call, the value    *)
(* returned (an object id, NoneVal when the call raised) and the           *)
(* exception raised (NoExc when it returned).                              *)
(***************************************************************************)
Returned(h, r) == [heap |-> h, ret |-> r, exc |-> NoExc]
Raised(h, e)   == [heap |-> h, ret |-> NoneVal, exc |-> e]

FreshId(h) == CHOOSE i \in 1..(Cardinality(DOMAIN h) + 1) : i \notin DOMAIN h

\* Response.__init__
Response_init(h) ==
    LET id == FreshId(h)
    IN  Returned([x \in DOMAIN h \cup {id} |-> IF x = id THEN FlaskResponse ELSE h[x]], id)

Update(h, self, fr) == [h EXCEPT ![self] = fr]

content_type(h, self, ct) ==
    LET v == IF ~HasSlash(ct)
             THEN types_map_get("." \o ct[1], TextHtml)
             ELSE ct
    IN  Returned(Update(h, self, set_content_type(h[self], Render(v))), self)

Response_get(h, self, field) == headers_get(h[self], field)

\* (seeded fault) json without its `return self`
json_returns_none(h, self, obj) ==
    LET h1 == Update(h, self, set_content_type(h[self], "application/json"))
    IN  IF ~Serializable(obj)
        THEN Raised(h1, "TypeError")
        ELSE Returned(Update(h1, self, set_data(h1[self], json_dumps(obj))), NoneVal)

json(h, self, obj) ==
    LET h1 == Update(h, self, set_content_type(h[self], "application/json"))
    IN  IF ~Serializable(obj)
        THEN Raised(h1, "TypeError")
        ELSE Returned(Update(h1, self, set_data(h1[self], json_dumps(obj))), self)

status(h, self, code) ==
    Returned(Update(h, self, set_status_code(h[self], code)), self)

RECURSIVE set_header_loop(_, _)
set_header_loop(fr, fields) ==
    IF fields = <<>> THEN fr
    ELSE set_header_loop(set_header_item(fr, fields[1][1], fields[1][2]), Tail(fields))

set_header(h, self, fields) ==
    Returned(Update(h, self, set_header_loop(h[self], fields)), self)

\* (seeded fault) send sets text/html whether or not a Content-Type is set
send_always_html(h, self, body) ==
    IF ~isinstance_str(body)
    THEN json(h, self, body)
    ELSE LET h1 == Update(h, self, set_data(h[self], body.v))
         IN  Returned(content_type(h1, self, TextHtml).heap, self)

send(h, self, body) ==
    IF ~isinstance_str(body)
    THEN json(h, self, body)
    ELSE LET h1 == Update(h, self, set_data(h[self], body.v))
         IN  IF ~Response_get(h1, self, "Content-Type").present
             THEN Returned(content_type(h1, self, TextHtml).heap, self)
             ELSE Returned(h1, self)

\* (seeded fault) send_file sets the Content-Type before it reads the file
send_file_type_first(h, self, file_path) ==
    LET h0 == Update(h, self,
                     set_content_type(h[self],
                         Render(types_map_get(file_path.suffix, TextHtml))))
    IN  IF PathStr(file_path) \notin DOMAIN FileSystem
        THEN Raised(h0, "FileNotFoundError")
        ELSE Returned(Update(h0, self,
                             set_data(h0[self], FileSystem[PathStr(file_path)])),
                      self)

send_file(h, self, file_path) ==
    IF PathStr(file_path) \notin DOMAIN FileSystem
    THEN Raised(h, "FileNotFoundError")
    ELSE LET h1 == Update(h, self, set_data(h[self], FileSystem[PathStr(file_path)]))
         IN  Returned(Update(h1, self,
                        set_content_type(h1[self],
                            Render(types_map_get(file_path.suffix, TextHtml)))),
                      self)

\* filename "" stands for None: both are falsy in `filename or path.name`
download(h, self, path, filename) ==
    LET a == set_header(h, self,
                 <<<<"Content-Disposition",
                     "attachment; filename=" \o
                        (IF filename # "" THEN filename ELSE PathName(path))>>>>)
        b == send_file(a.heap, self, path)
    IN  IF b.exc # NoExc THEN b ELSE Returned(b.heap, self)

RedirectNotice(path) ==
    "\n<!DOCTYPE HTML PUBLIC \"-//W3C//DTD HTML 3.2 Final//EN\">\n" \o
    "<title>Redirecting...</title>\n" \o
    "<h1>Redirecting...</h1>\n" \o
    "<p>You should be redirected automatically to target URL: <a href=\"" \o
    path \o "\">" \o path \o "</a>.  If not click the link.\n"

\* (seeded fault) redirect without its content_type("text/html") call
redirect_keeps_content_type(h, self, path) ==
    LET h1 == Update(h, self, set_status_code(h[self], 302))
        h2 == Update(h1, self, set_data(h1[self], RedirectNotice(path)))
    IN  Returned(Update(h2, self, set_header_item(h2[self], "Location", path)), self)

redirect(h, self, path) ==
    LET h1 == Update(h, self, set_status_code(h[self], 302))
        h2 == Update(h1, self, set_data(h1[self], RedirectNotice(path)))
        h3 == content_type(h2, self, TextHtml).heap
    IN  Returned(Update(h3, self, set_header_item(h3[self], "Location", path)), self)

\* self.status(code).send(http.HTTPStatus(code).phrase or str(code)):
\* self.status(code) is evaluated first, then the argument, then send is
\* called on what status returned
send_status(h, self, code) ==
    LET a == status(h, self, code)
    IN  IF code \notin DOMAIN HTTPStatus_phrase
        THEN Raised(a.heap, "ValueError")
        ELSE LET phrase == HTTPStatus_phrase[code]
                 b == send(a.heap, a.ret,
                           Str(IF phrase # "" THEN phrase ELSE ToString(code)))
             IN  IF b.exc # NoExc THEN b ELSE Returned(b.heap, self)

(***************************************************************************)
(* SpecResponse: a Response constructed by client code and then driven by  *)
(* any sequence of calls.  A call is made on the client's reference (the   *)
(* object constructed first) or, chained, on what the previous call        *)
(* returned.                                                               *)
(***************************************************************************)
StatusCodes     == {201, 404}
HeaderFields    == {<<<<"X-Foo", "1">>>>, <<<<"Content-Type", "text/plain">>>>}
ContentTypes    == {<<"json">>, <<"application", "xml">>}
JsonValues      == <<VDict(<<<<"ok", VBool(TRUE)>>>>), VSet>>
SendBodies      == <<Str("hello"), VDict(<<<<"a", VInt(1)>>>>)>>
FilePaths       == {Path("/srv", "a", ".json"), Path("/srv", "notes", ""),
                    Path("/srv", "missing", ".txt")}
Downloads       == {<<Path("/srv", "a", ".json"), "">>,
                    <<Path("/srv", "a", ".json"), "report.json">>,
                    <<Path("/srv", "missing", ".txt"), "f.txt">>,
                    <<Path("/srv", "missing", ".txt"), "">>}
RedirectPaths   == {"/x", "/a?b=<1>&c=\"2\""}
SendStatusCodes == {404, 599}
GetFields       == {"Content-Type"}

res == 1        \* the client's reference: the Response constructed first

Targets ==
    {res} \cup (IF last_call.op # "get" /\ last_call.ret # NoneVal
               THEN {last_call.ret} ELSE {})

Record(name, arg, self, r) ==
    /\ heap' = r.heap
    /\ log' = Append(log, [op |-> name, arg |-> arg, target |-> self,
                           ret |-> r.ret, exc |-> r.exc])
    /\ last_call' = [op |-> name, arg |-> arg, target |-> self,
                     ret |-> r.ret, exc |-> r.exc, before |-> heap[self]]
    /\ UNCHANGED <<appVars, reqVars, listenVars>>

CallStatus ==
    /\ Len(log) < MaxOps
    /\ \E self \in Targets, code \in StatusCodes :
          Record("status", code, self, status(heap, self, code))

CallSetHeader ==
    /\ Len(log) < MaxOps
    /\ \E self \in Targets, fields \in HeaderFields :
          Record("set_header", fields, self, set_header(heap, self, fields))

CallContentType ==
    /\ Len(log) < MaxOps
    /\ \E self \in Targets, ct \in ContentTypes :
          Record("content_type", ct, self, content_type(heap, self, ct))

CallJson ==
    /\ Len(log) < MaxOps
    /\ \E self \in Targets, i \in DOMAIN JsonValues :
          Record("json", JsonValues[i], self, json(heap, self, JsonValues[i]))

CallSend ==
    /\ Len(log) < MaxOps
    /\ \E self \in Targets, i \in DOMAIN SendBodies :
          Record("send", SendBodies[i], self, send(heap, self, SendBodies[i]))

CallSendFile ==
    /\ Len(log) < MaxOps
    /\ \E self \in Targets, p \in FilePaths :
          Record("send_file", p, self, send_file(heap, self, p))

CallDownload ==
    /\ Len(log) < MaxOps
    /\ \E self \in Targets, d \in Downloads :
          Record("download", d, self, download(heap, self, d[1], d[2]))

CallRedirect ==
    /\ Len(log) < MaxOps
    /\ \E self \in Targets, path \in RedirectPaths :
          Record("redirect", path, self, redirect(heap, self, path))

CallSendStatus ==
    /\ Len(log) < MaxOps
    /\ \E self \in Targets, code \in SendStatusCodes :
          Record("send_status", code, self, send_status(heap, self, code))

\* Response.get: a read; what it returns is the header's value or None
CallGet ==
    /\ Len(log) < MaxOps
    /\ \E self \in Targets, field \in GetFields :
          Record("get", field, self,
                 [heap |-> heap, ret |-> Response_get(heap, self, field), exc |-> NoExc])

(***************************************************************************)
(* Initial values of the parts a specification does not use.               *)
(***************************************************************************)
NoRequest == [method |-> "", path |-> <<>>, scheme |-> "",
              host_header |-> [labels |-> <<>>, port |-> 0], accept |-> <<>>,
              url_rule |-> [rule |-> <<>>, endpoint |-> ""], view_args |-> <<>>]
NoObs     == [read |-> "", arg |-> "", exc |-> NoExc, result |-> ""]
NoCall    == [op |-> "", arg |-> "", target |-> NoneVal, ret |-> NoneVal,
              exc |-> NoExc, before |-> FlaskResponse]

IdleApp ==
    /\ url_map = <<>>
    /\ view_functions = <<>>
    /\ last_reg = [verb |-> "", route |-> <<>>, func |-> NoneVal, exc |-> NoExc]
    /\ dispatch = [outcome |-> "none"]

IdleRequest ==
    /\ flask_request = NoRequest
    /\ obs = NoObs

IdleListen ==
    /\ sys_stdout = "stdout"
    /\ sys_stderr = "stderr"
    /\ files = ("stdout" :> "open") @@ ("stderr" :> "open")
    /\ lpc = "idle"
    /\ saved = [stdout |-> "", stderr |-> ""]
    /\ largs = [port |-> 0, hostname |-> "", verbose |-> TRUE]
    /\ writes = <<>>

\* res = Response()
InitResponse ==
    /\ IdleApp /\ IdleRequest /\ IdleListen
    /\ heap = Response_init(<<>>).heap
    /\ log = <<>>
    /\ last_call = [NoCall EXCEPT !.op = "__init__", !.ret = Response_init(<<>>).ret]

NextResponse ==
    \/ CallStatus \/ CallSetHeader \/ CallContentType \/ CallJson \/ CallSend
    \/ CallSendFile \/ CallDownload \/ CallRedirect \/ CallSendStatus \/ CallGet

SpecResponse == InitResponse /\ [][NextResponse]_vars

(***************************************************************************)
(* request.py: class Request, over the native request (werkzeug).          *)
(* The Host header is kept as its labels and its port (0: no port given);  *)
(* the Accept header as the sequence of the media types it lists.          *)
(***************************************************************************)
HostHeaderStr(hh) ==
    IF hh.port = 0 THEN Join(hh.labels, ".")
    ELSE Join(hh.labels, ".") \o ":" \o ToString(hh.port)

\* werkzeug get_host: the Host header, its port removed only when it is
\* the standard port of the scheme (":80" for http, ":443" for https)
StandardPort(scheme, port) ==
    \/ scheme = "http" /\ port = 80
    \/ scheme = "https" /\ port = 443

\* the labels of request.host split on "."
flask_host_labels(fr) ==
    LET hh == fr.host_header
    IN  IF hh.port = 0 \/ StandardPort(fr.scheme, hh.port) THEN hh.labels
        ELSE [i \in DOMAIN hh.labels |->
                 IF i = Len(hh.labels)
                 THEN hh.labels[i] \o ":" \o ToString(hh.port)
                 ELSE hh.labels[i]]

flask_host(fr) == Join(flask_host_labels(fr), ".")

\* werkzeug MIMEAccept._value_matches(value, item), for a well-formed item
value_matches(value, item) ==
    IF item[1] = "*" /\ item[2] # "*" THEN FALSE
    ELSE \/ item[1] = "*" /\ item[2] = "*"
         \/ value[1] = "*" /\ value[2] = "*"
         \/ /\ item[1] = value[1]
            /\ (item[2] = "*" \/ value[2] = "*" \/ item[2] = value[2])

\* value in request.accept_mimetypes: the items are tried in turn, and
\* matching a value that has no "/" against an item raises ValueError
accept_contains(fr, value) ==
    IF Len(fr.accept) = 0 THEN [result |-> FALSE, exc |-> NoExc]
    ELSE IF ~HasSlash(value) THEN [result |-> FALSE, exc |-> "ValueError"]
    ELSE [result |-> \E i \in DOMAIN fr.accept : value_matches(value, fr.accept[i]),
          exc |-> NoExc]

host(fr)     == flask_host(fr)
route(fr)    == fr.url_rule.endpoint
params(fr)   == fr.view_args
hostname(fr) == host(fr)
protocol(fr) == fr.scheme
secure(fr)   == protocol(fr) = "https"

Reversed(sq) == [i \in DOMAIN sq |-> sq[Len(sq) + 1 - i]]

\* list(reversed(self.hostname.split(".")))[2:]
subdomains(fr) ==
    LET r == Reversed(flask_host_labels(fr))
    IN  IF Len(r) <= 2 THEN <<>> ELSE SubSeq(r, 3, Len(r))

\* the lookup key is media_type as given, without a leading dot
accepts(fr, media_type) ==
    LET mt == IF ~HasSlash(media_type)
              THEN types_map_get(media_type[1], media_type)
              ELSE media_type
    IN  accept_contains(fr, mt)

(***************************************************************************)
(* SpecRequest: a Request over any of a set of native requests, read       *)
(* through its accessors.                                                  *)
(***************************************************************************)
HostLabels   == {<<"example", "com">>, <<"tobi", "ferrets", "example", "com">>}
HostPorts    == {0, 80, 443, 3000}
Schemes      == {"http", "https"}
AcceptLists  == {<<>>, <<AppJson>>, <<TextHtml>>, <<<<"*", "*">>>>,
                 <<<<"application", "*">>>>, <<TextHtml, AppJson>>}
MediaTypes   == {<<"json">>, AppJson, <<"html">>, TextHtml}

NativeRequests ==
    {[method |-> "GET", path |-> <<"x">>, scheme |-> sc,
      host_header |-> [labels |-> hl, port |-> hp], accept |-> ac,
      url_rule |-> [rule |-> <<[lit |-> "x", var |-> ""]>>, endpoint |-> "index"],
      view_args |-> <<>>] :
        sc \in Schemes, hl \in HostLabels, hp \in HostPorts, ac \in AcceptLists}

Read(name, arg, result, exc) ==
    /\ obs' = [read |-> name, arg |-> arg, exc |-> exc, result |-> result]
    /\ UNCHANGED <<appVars, heap, respVars, flask_request, listenVars>>

ReadHost       == Read("host", "", host(flask_request), NoExc)
ReadHostname   == Read("hostname", "", hostname(flask_request), NoExc)
ReadProtocol   == Read("protocol", "", protocol(flask_request), NoExc)
ReadSecure     == Read("secure", "", secure(flask_request), NoExc)
ReadSubdomains == Read("subdomains", "", subdomains(flask_request), NoExc)
ReadRoute      == Read("route", "", route(flask_request), NoExc)

ReadAccepts ==
    \E mt \in MediaTypes :
        LET r == accepts(flask_request, mt)
        IN  Read("accepts", mt, r.result, r.exc)

\* req = Request(flask_request)
InitRequest ==
    /\ IdleApp /\ IdleListen
    /\ heap = <<>>
    /\ log = <<>>
    /\ last_call = NoCall
    /\ flask_request \in NativeRequests
    /\ obs = NoObs

NextRequest ==
    \/ ReadHost \/ ReadHostname \/ ReadProtocol \/ ReadSecure \/ ReadSubdomains
    \/ ReadAccepts \/ ReadRoute

SpecRequest == InitRequest /\ [][NextRequest]_vars

(***************************************************************************)
(* godlike.py: GodLike.listen.  Stream objects are named: "stdout" and     *)
(* "stderr" are the process's own, "null" is the file object that          *)
(* open(os.devnull, "w") returns.  listen blocks in run_simple, so the     *)
(* call has positions: "idle" (not called), "serving" (inside run_simple), *)
(* "returned" and "raised" (the call is over).                             *)
(***************************************************************************)
Ports     == {5000, 8080}
Hostnames == {"localhost", "0.0.0.0"}

\* lines 202-209: the streams are swapped inside the `with` block, the
\* block ends (closing the file) and only then run_simple is entered
listen_enter(port, host_name, verbose) ==
    /\ lpc = "idle"
    /\ largs' = [port |-> port, hostname |-> host_name, verbose |-> verbose]
    /\ IF ~verbose
       THEN /\ saved' = [stdout |-> sys_stdout, stderr |-> sys_stderr]
            /\ sys_stdout' = "null"
            /\ sys_stderr' = "null"
            /\ files' = [x \in DOMAIN files \cup {"null"} |->
                            IF x = "null" THEN "closed" ELSE files[x]]
       ELSE UNCHANGED <<saved, sys_stdout, sys_stderr, files>>
    /\ lpc' = "serving"
    /\ UNCHANGED <<appVars, heap, respVars, reqVars, writes>>

GodLike_listen ==
    \E port \in Ports, host_name \in Hostnames, verbose \in BOOLEAN :
        listen_enter(port, host_name, verbose)

\* lines 209-213: run_simple returns and the saved streams are put back
listen_return ==
    /\ lpc = "serving"
    /\ IF ~largs.verbose
       THEN /\ sys_stdout' = saved.stdout
            /\ sys_stderr' = saved.stderr
       ELSE UNCHANGED <<sys_stdout, sys_stderr>>
    /\ lpc' = "returned"
    /\ UNCHANGED <<appVars, heap, respVars, reqVars, files, saved, largs, writes>>

\* line 209: run_simple raises (the port is taken, the server loop fails);
\* the exception leaves listen, lines 211-213 do not run
listen_raise ==
    /\ lpc = "serving"
    /\ lpc' = "raised"
    /\ UNCHANGED <<appVars, heap, respVars, reqVars, sys_stdout, sys_stderr,
                   files, saved, largs, writes>>

\* what writing to a stream object does
write_outcome(stream) ==
    IF files[stream] = "closed" THEN "ValueError"
    ELSE IF stream = "null" THEN "dropped"
    ELSE "shown"

\* the process writes to sys.stdout or sys.stderr (a handler's print, the
\* server's log line)
Write ==
    /\ Len(writes) < MaxWrites
    /\ \E which \in {"stdout", "stderr"} :
          LET stream == IF which = "stdout" THEN sys_stdout ELSE sys_stderr
          IN  writes' = Append(writes, [to |-> which, at |-> lpc, stream |-> stream,
                                        outcome |-> write_outcome(stream)])
    /\ UNCHANGED <<appVars, heap, respVars, reqVars, sys_stdout, sys_stderr,
                   files, lpc, saved, largs>>

InitListen ==
    /\ IdleApp /\ IdleRequest /\ IdleListen
    /\ heap = <<>>
    /\ log = <<>>
    /\ last_call = NoCall

NextListen == GodLike_listen \/ listen_return \/ listen_raise \/ Write

SpecListen == InitListen /\ [][NextListen]_vars

(***************************************************************************)
(* godlike.py: class GodLike over a flask application.                     *)
(*                                                                         *)
(* A route pattern is the sequence of its segments, a segment a literal    *)
(* or a variable: "/user/<id>" is <<Lit("user"), Var("id")>>.  A request   *)
(* path is the sequence of its segments.                                   *)
(***************************************************************************)
Lit(s) == [lit |-> s, var |-> ""]
Var(v) == [lit |-> "", var |-> v]

SegStr(g)   == IF g.var # "" THEN "<" \o g.var \o ">" ELSE g.lit
RuleStr(rt) == "/" \o Join([i \in DOMAIN rt |-> SegStr(rt[i])], "/")

\* werkzeug's matching of a path against a rule's pattern
Matches(rt, path) ==
    /\ Len(rt) = Len(path)
    /\ \A i \in DOMAIN rt : rt[i].var # "" \/ rt[i].lit = path[i]

ViewArgs(rt, path) ==
    LET vs == {i \in DOMAIN rt : rt[i].var # ""}
    IN  [v \in {rt[i].var : i \in vs} |->
            path[CHOOSE i \in vs : rt[i].var = v]]

(***************************************************************************)
(* The handler functions of the application.  Two different functions may  *)
(* carry the same __name__.  What a handler returns: nothing, a text, or   *)
(* the native response of a Response it made itself.                       *)
(***************************************************************************)
RetNone        == [kind |-> "none", id |-> NoneVal]
RetText        == [kind |-> "str", id |-> NoneVal]
RetResponse(i) == [kind |-> "response", id |-> i]

GetUser     == [id |-> 1, name |-> "get_user", body |-> "send_route"]
GetUserJson == [id |-> 2, name |-> "get_user", body |-> "chain_json"]
Index       == [id |-> 3, name |-> "index",    body |-> "own_response"]

\* a handler and the route it is written for
Handlers ==
    {<<<<Lit("user"), Var("id")>>, GetUser>>,
     <<<<Lit("user"), Var("id")>>, GetUserJson>>,
     <<<<Lit("x")>>, Index>>}

\* func(Request(request), response): the handler's body runs on the facades
\* it is given.  Each handler first reads req.route.
\*   send_route    res.send(req.route)
\*   chain_json    return str(res.status(201).set_header({"X-Foo": "1"})
\*                                .json({"ok": True}))
\*   own_response  other = Response(); other.status(404)
\*                 res.redirect("/x"); return other.flask_response
RunHandler(h, func, req, response) ==
    CASE func.body = "send_route" ->
            LET a == send(h, response, Str(route(req)))
            IN  [heap |-> a.heap, ret |-> RetNone, route_seen |-> route(req)]
      [] func.body = "chain_json" ->
            LET a == status(h, response, 201)
                b == set_header(a.heap, a.ret, <<<<"X-Foo", "1">>>>)
                c == json(b.heap, b.ret, VDict(<<<<"ok", VBool(TRUE)>>>>))
            IN  [heap |-> c.heap, ret |-> RetText, route_seen |-> route(req)]
      [] func.body = "own_response" ->
            LET o == Response_init(h)
                a == status(o.heap, o.ret, 404)
                b == redirect(a.heap, response, "/x")
            IN  [heap |-> b.heap, ret |-> RetResponse(o.ret), route_seen |-> route(req)]

\* (seeded fault) the wrapper returns what the handler returned when that is a
\* response
view_returns_handler_value(h, closure, request) ==
    LET r   == Response_init(h)
        run == RunHandler(r.heap, closure.func, request, r.ret)
    IN  [heap        |-> run.heap,
         response    |-> r.ret,
         initial     |-> r.heap[r.ret],
         invocations |-> <<[func |-> closure.func.id, request |-> request,
                            response |-> r.ret]>>,
         handler_ret |-> run.ret,
         route_seen  |-> run.route_seen,
         reply_of    |-> IF run.ret.kind = "response" THEN run.ret.id ELSE r.ret]

\* the wrapper `_` that every verb registers (godlike.py 38-41 and alike):
\*     response = Response()
\*     func(Request(request), response)
\*     return response.flask_response
view(h, closure, request) ==
    LET r   == Response_init(h)
        run == RunHandler(r.heap, closure.func, request, r.ret)
    IN  [heap        |-> run.heap,
         response    |-> r.ret,
         initial     |-> r.heap[r.ret],
         invocations |-> <<[func |-> closure.func.id, request |-> request,
                            response |-> r.ret]>>,
         handler_ret |-> run.ret,
         route_seen  |-> run.route_seen,
         reply_of    |-> r.ret]

\* werkzeug Rule / flask add_url_rule: the methods a rule answers.  GET
\* brings HEAD; OPTIONS is added, answered by flask itself, unless it was
\* asked for
RuleMethods(methods) ==
    methods \cup (IF "GET" \in methods THEN {"HEAD"} ELSE {})
            \cup (IF "OPTIONS" \notin methods THEN {"OPTIONS"} ELSE {})

\* a function is defined, and so decorated, once
Decorated(func) == \E i \in DOMAIN url_map : url_map[i].func = func.id

\* @self._app.route(route, methods=[verb], endpoint=func.__name__): flask's
\* add_url_rule adds the rule to the map and then refuses (AssertionError)
\* an endpoint that already has another view function; the wrapper is a new
\* function at every registration
Register(verb, rt, func) ==
    LET rule == [rule |-> rt, methods |-> RuleMethods({verb}),
                 endpoint |-> func.name, func |-> func.id,
                 provide_automatic_options |-> verb # "OPTIONS"]
        closure == [func |-> func, n |-> Len(url_map) + 1]
        taken == func.name \in DOMAIN view_functions
    IN  /\ url_map' = Append(url_map, rule)
        /\ view_functions' =
              IF taken THEN view_functions
              ELSE [e \in DOMAIN view_functions \cup {func.name} |->
                       IF e = func.name THEN closure ELSE view_functions[e]]
        /\ last_reg' = [verb |-> verb, route |-> rt, func |-> func.id,
                        exc |-> IF taken THEN "AssertionError" ELSE NoExc]
        /\ dispatch' = [outcome |-> "none"]
        /\ UNCHANGED <<heap, respVars, reqVars, listenVars>>

GodLike_get ==
    /\ Len(url_map) < MaxRoutes
    /\ \E hd \in Handlers : ~Decorated(hd[2]) /\ Register("GET", hd[1], hd[2])

GodLike_post ==
    /\ Len(url_map) < MaxRoutes
    /\ \E hd \in Handlers : ~Decorated(hd[2]) /\ Register("POST", hd[1], hd[2])

GodLike_put ==
    /\ Len(url_map) < MaxRoutes
    /\ \E hd \in Handlers : ~Decorated(hd[2]) /\ Register("PUT", hd[1], hd[2])

GodLike_delete ==
    /\ Len(url_map) < MaxRoutes
    /\ \E hd \in Handlers : ~Decorated(hd[2]) /\ Register("DELETE", hd[1], hd[2])

GodLike_patch ==
    /\ Len(url_map) < MaxRoutes
    /\ \E hd \in Handlers : ~Decorated(hd[2]) /\ Register("PATCH", hd[1], hd[2])

GodLike_head ==
    /\ Len(url_map) < MaxRoutes
    /\ \E hd \in Handlers : ~Decorated(hd[2]) /\ Register("HEAD", hd[1], hd[2])

GodLike_options ==
    /\ Len(url_map) < MaxRoutes
    /\ \E hd \in Handlers : ~Decorated(hd[2]) /\ Register("OPTIONS", hd[1], hd[2])


Verbs == {"GET", "POST", "PUT", "DELETE", "PATCH", "HEAD", "OPTIONS"}
RequestPaths == {<<"user", "7">>, <<"x">>}

\* flask serves a request: it finds the first rule whose pattern matches the
\* path and that answers the method, and calls the view function of the
\* rule's endpoint.  The objects of the request before are gone by then.
\* (\E x \in {e} binds x to the value of e.)
Dispatch ==
    /\ url_map # <<>>
    /\ \E method \in Verbs, path \in RequestPaths :
        LET byPath == {i \in DOMAIN url_map : Matches(url_map[i].rule, path)}
            cands  == {i \in byPath : method \in url_map[i].methods}
        IN  IF byPath = {}
            THEN /\ dispatch' = [outcome |-> "404", method |-> method, path |-> path]
                 /\ heap' = <<>>
            ELSE IF cands = {}
            THEN /\ dispatch' = [outcome |-> "405", method |-> method, path |-> path]
                 /\ heap' = <<>>
            ELSE \E i \in {CHOOSE k \in cands : \A j \in cands : k <= j} :
                 IF method = "OPTIONS" /\ url_map[i].provide_automatic_options
                 THEN /\ dispatch' = [outcome |-> "options", method |-> method,
                                      path |-> path]
                      /\ heap' = <<>>
                 ELSE \E req \in {[method |-> method, path |-> path, scheme |-> "http",
                                   host_header |-> [labels |-> <<"localhost">>,
                                                    port |-> 5000],
                                   accept |-> <<>>,
                                   url_rule |-> [rule |-> url_map[i].rule,
                                                 endpoint |-> url_map[i].endpoint],
                                   view_args |-> ViewArgs(url_map[i].rule, path)]} :
                      \E v \in {view(<<>>, view_functions[url_map[i].endpoint], req)} :
                         /\ heap' = v.heap
                         /\ dispatch' =
                              [outcome |-> "handled", method |-> method,
                               path |-> path, rule |-> i, request |-> req,
                               response |-> v.response,
                               initial |-> v.initial,
                               invocations |-> v.invocations,
                               handler_ret |-> v.handler_ret,
                               route_seen |-> v.route_seen,
                               reply_of |-> v.reply_of,
                               reply |-> v.heap[v.reply_of]]
    /\ UNCHANGED <<url_map, view_functions, last_reg, respVars, reqVars, listenVars>>

\* app = GodLike()
Init ==
    /\ IdleApp /\ IdleRequest /\ IdleListen
    /\ heap = <<>>
    /\ log = <<>>
    /\ last_call = NoCall

Next ==
    \/ GodLike_get \/ GodLike_post \/ GodLike_put \/ GodLike_delete
    \/ GodLike_patch \/ GodLike_head \/ GodLike_options
    \/ Dispatch

Spec == Init /\ [][Next]_vars

(***************************************************************************)
(* Properties of the Response facade, checked under SpecResponse.          *)
(***************************************************************************)
Header(fr, k)    == fr.headers[k]
HasHeader(fr, k) == k \in DOMAIN fr.headers
Called           == heap[last_call.target]     \* the object the last call was made on

\* C2 (as amended): send(value) with a non-text value leaves Content-Type
\* application/json and the JSON text as body, as json(value) does; with a
\* text value the body becomes that text and the Content-Type that was set
\* is kept, text/html being written only when none was set.  A freshly
\* constructed Response already carries Content-Type
\* "text/html; charset=utf-8", so send("hello") on it keeps that value and
\* yields body "hello".
C2_SendContract ==
    /\ last_call.op = "send" =>
          LET v == last_call.arg
              b == last_call.before
          IN  IF ~isinstance_str(v)
              THEN /\ HasHeader(Called, "Content-Type")
                   /\ Header(Called, "Content-Type") = "application/json"
                   /\ Serializable(v) => Called.data = json_dumps(v)
                   /\ v.v = <<<<"a", VInt(1)>>>> => Called.data = "{\"a\": 1}"
              ELSE /\ Called.data = v.v
                   /\ HasHeader(Called, "Content-Type")
                   /\ Header(Called, "Content-Type") =
                         IF HasHeader(b, "Content-Type")
                         THEN Header(b, "Content-Type") ELSE "text/html"
    /\ (Len(log) = 1 /\ log[1].op = "send" /\ isinstance_str(log[1].arg)) =>
          /\ Header(heap[res], "Content-Type") = "text/html; charset=utf-8"
          /\ heap[res].data = log[1].arg.v

\* C2 witness: send("hello") after a Content-Type was set by the caller
C2_Witness ==
    /\ Len(log) = 2
    /\ log[1].op = "content_type" /\ log[1].arg = <<"application", "xml">>
    /\ log[2].op = "send" /\ isinstance_str(log[2].arg)
    /\ Header(heap[res], "Content-Type") = "application/xml"
    /\ heap[res].data = "hello"

\* C2 as stated: on a freshly constructed Response, send("hello") yields
\* Content-Type text/html and body "hello"
C2_FreshSendIsTextHtml ==
    (Len(log) = 1 /\ log[1].op = "send" /\ isinstance_str(log[1].arg)) =>
        /\ Header(heap[res], "Content-Type") = "text/html"
        /\ heap[res].data = "hello"

\* C3 as stated: send_status(code) does not fail, sets the status to code
\* and the body to the reason phrase of code, or to the decimal string of a
\* code that has no reason phrase
C3_SendStatus ==
    last_call.op = "send_status" =>
        /\ last_call.exc = NoExc
        /\ Called.status_code = last_call.arg
        /\ Called.data = IF last_call.arg \in DOMAIN HTTPStatus_phrase
                         THEN HTTPStatus_phrase[last_call.arg]
                         ELSE ToString(last_call.arg)

\* What a call of the log wrote to the status and to the body.  A call that
\* raised before reaching its body write wrote no body.
WritesStatus(e) == e.op \in {"status", "redirect", "send_status"}
StatusWritten(e) == IF e.op = "redirect" THEN 302 ELSE e.arg
WritesBody(e) ==
    /\ e.op \in {"json", "send", "send_file", "download", "redirect", "send_status"}
    /\ e.exc = NoExc
BodyWritten(e) ==
    CASE e.op = "json"        -> json_dumps(e.arg)
      [] e.op = "send"        -> IF isinstance_str(e.arg) THEN e.arg.v
                                 ELSE json_dumps(e.arg)
      [] e.op = "send_file"   -> FileSystem[PathStr(e.arg)]
      [] e.op = "download"    -> FileSystem[PathStr(e.arg[1])]
      [] e.op = "redirect"    -> RedirectNotice(e.arg)
      [] e.op = "send_status" -> HTTPStatus_phrase[e.arg]

RECURSIVE LastStatus(_)
LastStatus(l) ==
    IF Len(l) = 0 THEN FlaskResponse.status_code
    ELSE IF WritesStatus(l[Len(l)]) THEN StatusWritten(l[Len(l)])
    ELSE LastStatus(SubSeq(l, 1, Len(l) - 1))

RECURSIVE LastBody(_)
LastBody(l) ==
    IF Len(l) = 0 THEN FlaskResponse.data
    ELSE IF WritesBody(l[Len(l)]) THEN BodyWritten(l[Len(l)])
    ELSE LastBody(SubSeq(l, 1, Len(l) - 1))

\* C5: after any sequence of calls the response holds one status code and
\* one body, each the value written by the last call of the sequence that
\* wrote that field, or the value at construction when no call wrote it
C5_LastWriteWins ==
    /\ heap[res].status_code = LastStatus(log)
    /\ heap[res].data = LastBody(log)

\* C5 witness: status and body each written twice, by different operations
C5_Witness ==
    /\ Len(log) = 3
    /\ log[1].op = "send_status" /\ log[1].exc = NoExc
    /\ log[2].op = "redirect"
    /\ log[3].op = "json" /\ log[3].exc = NoExc
    /\ heap[res].status_code = 302
    /\ heap[res].data = "{\"ok\": true}"

\* C6: every mutating operation that returns, returns the facade it was
\* called on; and the chain status(201).set_header({"X-Foo": "1"})
\* .json({"ok": true}) on a fresh Response, each call made on what the call
\* before returned, leaves status 201, X-Foo = 1, Content-Type
\* application/json and body {"ok": true}
C6_ReturnsSelf ==
    /\ \A i \in DOMAIN log :
          (log[i].op # "get" /\ log[i].exc = NoExc) => log[i].ret = log[i].target
    /\ ( /\ Len(log) = 3
         /\ log[1].op = "status" /\ log[1].arg = 201 /\ log[1].target = res
         /\ log[2].op = "set_header" /\ log[2].arg = <<<<"X-Foo", "1">>>>
         /\ log[2].target = log[1].ret
         /\ log[3].op = "json" /\ log[3].exc = NoExc
         /\ log[3].target = log[2].ret )
       => /\ heap[res].status_code = 201
          /\ HasHeader(heap[res], "X-Foo") /\ Header(heap[res], "X-Foo") = "1"
          /\ Header(heap[res], "Content-Type") = "application/json"
          /\ heap[res].data = "{\"ok\": true}"

\* C6 witness: the chain of the claim has run
C6_Witness ==
    /\ Len(log) = 3
    /\ log[1].op = "status" /\ log[1].arg = 201
    /\ log[2].op = "set_header" /\ log[2].arg = <<<<"X-Foo", "1">>>>
    /\ log[3].op = "json" /\ log[3].exc = NoExc /\ log[3].ret = res
    /\ heap[res].status_code = 201

RedirectResult ==
    /\ last_call.exc = NoExc
    /\ Called.status_code = 302
    /\ HasHeader(Called, "Location")
    /\ Header(Called, "Location") = last_call.arg
    /\ HasHeader(Called, "Content-Type")
    /\ Header(Called, "Content-Type") = "text/html"
    /\ Called.data = RedirectNotice(last_call.arg)
    /\ last_call.arg = "/x" =>
          Called.data =
             "\n<!DOCTYPE HTML PUBLIC \"-//W3C//DTD HTML 3.2 Final//EN\">\n" \o
             "<title>Redirecting...</title>\n<h1>Redirecting...</h1>\n" \o
             "<p>You should be redirected automatically to target URL: " \o
             "<a href=\"/x\">/x</a>.  If not click the link.\n"

HeadersKeptExcept(names) ==
    \A k \in (DOMAIN Called.headers \cup DOMAIN last_call.before.headers) \ names :
        /\ HasHeader(Called, k) /\ HasHeader(last_call.before, k)
        /\ Header(Called, k) = Header(last_call.before, k)

\* C7 (as amended): redirect(path) in any prior state leaves status 302,
\* Location = path, Content-Type text/html and the redirect notice with
\* path verbatim as body; Content-Length becomes the length of that body,
\* and every header other than Location, Content-Type and Content-Length
\* is unchanged
C7_Redirect ==
    last_call.op = "redirect" =>
        /\ RedirectResult
        /\ HasHeader(Called, "Content-Length")
        /\ Header(Called, "Content-Length") = ToString(Len(Called.data))
        /\ HeadersKeptExcept({"Location", "Content-Type", "Content-Length"})

\* C7 witness: redirect on a response whose status, Content-Type and
\* X-Foo header were set before
C7_Witness ==
    /\ Len(log) = 3
    /\ log[1].op = "send_status" /\ log[1].arg = 404
    /\ log[2].op = "set_header" /\ log[2].arg = <<<<"X-Foo", "1">>>>
    /\ log[3].op = "redirect"
    /\ heap[res].status_code = 302
    /\ Header(heap[res], "X-Foo") = "1"

\* C7 as stated: ... headers other than Location and Content-Type are
\* unchanged
C7_OnlyLocationAndContentTypeChange ==
    last_call.op = "redirect" =>
        /\ RedirectResult
        /\ HeadersKeptExcept({"Location", "Content-Type"})

(***************************************************************************)
(* Properties of the Request facade, checked under SpecRequest.            *)
(***************************************************************************)
\* C8 as stated: host and hostname both return the hostname portion of the
\* Host header with any port stripped ("example.com" for
\* "example.com:3000"), and host = hostname for every request
C8_HostIsHostnameWithoutPort ==
    /\ obs.read \in {"host", "hostname"} =>
          obs.result = Join(flask_request.host_header.labels, ".")
    /\ host(flask_request) = hostname(flask_request)

\* C9 as stated: accepts("json") resolves the bare name to application/json
\* and so answers, without failing, what accepts("application/json") answers
C9_AcceptsBareExtension ==
    (obs.read = "accepts" /\ obs.arg = <<"json">>) =>
        /\ obs.exc = NoExc
        /\ obs.result = accepts(flask_request, AppJson).result

(***************************************************************************)
(* Properties of GodLike.listen, checked under SpecListen.                 *)
(***************************************************************************)
\* C4 as stated: with verbose false, while the server is serving, stdout
\* and stderr are a usable discarding sink (a write is dropped, it is not
\* an error), and once serving has ended, by return or by an error, they
\* are the original streams again; with verbose true they never change
C4_SuppressedWhileServingThenRestored ==
    /\ (lpc = "serving" /\ ~largs.verbose) =>
          /\ sys_stdout = "null" /\ sys_stderr = "null"
          /\ files["null"] = "open"
    /\ \A i \in DOMAIN writes :
          (writes[i].at = "serving" /\ ~largs.verbose) => writes[i].outcome = "dropped"
    /\ lpc \in {"returned", "raised"} =>
          sys_stdout = "stdout" /\ sys_stderr = "stderr"
    /\ largs.verbose => sys_stdout = "stdout" /\ sys_stderr = "stderr"

(***************************************************************************)
(* Properties of registration and dispatch, checked under Spec.            *)
(***************************************************************************)
\* C1: for every verb, a dispatch that reaches a registered wrapper
\* constructs a fresh Response, calls the handler exactly once with the
\* Request over that request and that Response, and replies with the native
\* response of that same Response, whatever the handler returned
C1_WrapperContract ==
    dispatch.outcome = "handled" =>
        /\ dispatch.initial = FlaskResponse
        /\ Len(dispatch.invocations) = 1
        /\ dispatch.invocations[1].request = dispatch.request
        /\ dispatch.invocations[1].response = dispatch.response
        /\ dispatch.reply_of = dispatch.response
        /\ dispatch.reply = heap[dispatch.response]
        /\ dispatch.handler_ret.kind = "response" =>
              /\ dispatch.handler_ret.id # dispatch.reply_of
              /\ dispatch.reply.status_code = 302

\* C1 witness: a handler registered with options() ran and returned
\* another response than the one the wrapper replied with
C1_Witness ==
    /\ dispatch.outcome = "handled"
    /\ dispatch.method = "OPTIONS"
    /\ dispatch.handler_ret.kind = "response"
    /\ dispatch.reply.status_code = 302
    /\ heap[dispatch.handler_ret.id].status_code = 404

\* C10 as stated: inside a handler, Request.route is the route pattern the
\* handler was registered with
C10_RouteIsThePattern ==
    dispatch.outcome = "handled" =>
        dispatch.route_seen = RuleStr(url_map[dispatch.rule].rule)

\* the verb a rule was registered with, read back from the rule
RegisteredVerb(r) ==
    IF "GET" \in r.methods THEN "GET"
    ELSE IF ~r.provide_automatic_options THEN "OPTIONS"
    ELSE CHOOSE m \in r.methods : m # "OPTIONS"

\* the registrations so far were against pairwise distinct verb+path pairs
DistinctPairs ==
    \A i, j \in DOMAIN url_map :
        (/\ RegisteredVerb(url_map[i]) = RegisteredVerb(url_map[j])
         /\ url_map[i].rule = url_map[j].rule) => i = j

\* C11 as stated: after registrations against pairwise distinct verb+path
\* pairs, whatever the handlers' names, every registration has succeeded,
\* and a request with verb V whose path matches P runs exactly the handler
\* registered for (V, P) and no other
C11_DistinctPairsRegisterAndDispatch ==
    DistinctPairs =>
        /\ last_reg.exc = NoExc
        /\ dispatch.outcome = "handled" =>
              \A i \in DOMAIN url_map :
                 (/\ RegisteredVerb(url_map[i]) = dispatch.method
                  /\ Matches(url_map[i].rule, dispatch.path)) =>
                     /\ Len(dispatch.invocations) = 1
                     /\ dispatch.invocations[1].func = url_map[i].func

(***************************************************************************)
(* File errors in send_file and download, checked under SpecResponse.      *)
(***************************************************************************)
\* the last call was send_file or download on a file that cannot be read
FileCallFailed ==
    /\ last_call.op \in {"send_file", "download"}
    /\ PathStr(IF last_call.op = "download" THEN last_call.arg[1]
               ELSE last_call.arg) \notin DOMAIN FileSystem

\* C12 (as amended): when the file cannot be read, send_file and download
\* raise the file error to the caller; send_file leaves the response
\* exactly as it was; download leaves status, body and every header other
\* than Content-Disposition as they were, and has already set
\* Content-Disposition to "attachment; filename=" + (filename or the
\* path's name)
C12_FileErrorPropagates ==
    FileCallFailed =>
        /\ last_call.exc = "FileNotFoundError"
        /\ last_call.ret = NoneVal
        /\ last_call.op = "send_file" => Called = last_call.before
        /\ last_call.op = "download" =>
              /\ Called.status_code = last_call.before.status_code
              /\ Called.data = last_call.before.data
              /\ HeadersKeptExcept({"Content-Disposition"})
              /\ HasHeader(Called, "Content-Disposition")
              /\ Header(Called, "Content-Disposition") =
                    "attachment; filename=" \o
                    (IF last_call.arg[2] # "" THEN last_call.arg[2]
                     ELSE PathName(last_call.arg[1]))

\* C12 witness: send_file of a missing file on a response whose status and
\* JSON body were set before, then download of a missing file on it
C12_Witness ==
    /\ Len(log) = 3
    /\ log[1].op = "send_status" /\ log[1].arg = 404
    /\ log[2].op = "send_file" /\ log[2].exc = "FileNotFoundError"
    /\ log[3].op = "download" /\ log[3].exc = "FileNotFoundError"
    /\ FileCallFailed
    /\ heap[res].status_code = 404
    /\ heap[res].data = "Not Found"
    /\ ~HasHeader(last_call.before, "Content-Disposition")
    /\ HasHeader(heap[res], "Content-Disposition")

\* C12 as stated: when the file cannot be read, send_file and download
\* raise the file error and leave the response exactly as it was before
\* the call: status, body and every header, Content-Disposition included
C12_FailedFileCallLeavesResponseUnchanged ==
    FileCallFailed =>
        /\ last_call.exc = "FileNotFoundError"
        /\ Called = last_call.before

====
